---- MODULE Spec2Model ----
(***************************************************************************)
(* State-machine model of EarthquakeOverlay (EarthquakeOverlay.js) and of  *)
(* the timeline controls that drive it.                                    *)
(*                                                                         *)
(* Units.  Event timestamps, the playback cursor and ages are counted in   *)
(* units of MsPerUnit = 28,800 ms, the largest unit in which both one hour *)
(* (125 units) and dayInMs / 1000 (3 units) are whole numbers, so the tick *)
(* advance (deltaTime / 1000) * playbackSpeed * dayInMs is exact for every *)
(* whole-millisecond deltaTime.  The wall clock `now` is in milliseconds.  *)
(*                                                                         *)
(* Real-valued visual quantities (scale, opacity, bloom multiplier) are    *)
(* exact fractions stored as numerators over Den.  A colour is the pair    *)
(* <<hex, m>> standing for Color(hex).multiplyScalar(m / Den).             *)
(*                                                                         *)
(* null.  JavaScript null is falsy and acts as 0 in arithmetic and in      *)
(* comparisons; the code never tests a time against null with ===, so a    *)
(* null time is modelled by 0.  Event timestamps are strictly positive.    *)
(***************************************************************************)
EXTENDS Integers, Sequences, FiniteSets, TLC

\* ------------------------------------------------------------------ bounds
MaxNow == 1500          \* the wall clock runs from 0 to MaxNow ms
MaxScheduled == 2       \* requestAnimationFrame callbacks outstanding
MaxPending == 1         \* fetches in flight
MaxInFlight == 2        \* fetches in flight once the application reloads
MaxTimers == 2          \* highlight-restore timers outstanding
WallEpoch == 12000      \* Date.now() at wall clock 0, in time units

FrameDeltas == {1500}   \* ms between two reads of the wall clock
Speeds == {1, 2}        \* playback speeds offered (days per second)

\* ------------------------------------------------------------- constants
MsPerUnit == 288 * 100
HourInUnits == (1000 * 60 * 60) \div MsPerUnit
dayInMs == (24 * 60 * 60 * 1000) \div MsPerUnit
Den == 360 * HourInUnits

NullTime == 0
NullId == "null"
NoHandle == 0

Max(a, b) == IF a >= b THEN a ELSE b
Min(a, b) == IF a <= b THEN a ELSE b

\* ---------------------------------------------------------------- events
\* The features the event source can return (geometry.coordinates =
\* [lon, lat, depthKm], properties.time).
Ids == {"a", "b", "c"}

Feature(id) ==
  CASE id = "a" -> [time |-> 3000,  lon |-> -155, lat |-> 60, depth |-> 10]
    [] id = "b" -> [time |-> 3100,  lon |-> -160, lat |-> 55, depth |-> 0]
    [] id = "c" -> [time |-> 10500, lon |-> -152, lat |-> 63, depth |-> 35]

\* Bodies of data.features the fetch can resolve with.
Responses == { <<>>, <<"c", "a", "b">> }

\* A returned feature without a properties object, and the bodies of
\* data.features that hold one.
BadId == "bad"
MalformedResponses == { <<"c", BadId, "a">> }

\* Every feature of the list has its properties and geometry.
WellFormed(features) == \A i \in 1..Len(features) : features[i] \in Ids

\* Terrain extents a caller can pass: the application's initial all-zero
\* object and the one populated from the GeoTIFF.
ZeroBounds ==
  [minLat |-> 0, maxLat |-> 0, minLon |-> 0, maxLon |-> 0, width |-> 0, height |-> 0]
LoadedBounds ==
  [minLat |-> 55, maxLat |-> 65, minLon |-> -160, maxLon |-> -150,
   width |-> 1000, height |-> 800]
Extents == {LoadedBounds}

\* Times a caller seeks to, and cutoffs a caller passes to visualize besides
\* the playback cursor.
SeekTimes == {3000, 10500}
Cutoffs == {NullTime}

\* Times a caller of setTime can pass that lie outside the range of the
\* events above: after the latest.
FarSeekTimes == {12000}

\* Identifiers a caller selects.
Selectable == {"a", "c", NullId}

\* ------------------------------------------------------------- variables
VARIABLES
  earthquakeData,       \* sequence of feature ids, in the order held
  timeRange,            \* [start, end]
  currentTime,
  isPlaying,
  playbackSpeed,
  lastFrameTime,
  animationId,
  manuallyPaused,
  selectedFeatureId,
  hasVisualMap,         \* this.earthquakeVisualMap has been created
  earthquakeVisualMap,  \* id -> Visual Entry
  group,                \* children of this.group: <<uid, kind>>
  scheduled,            \* outstanding animation-frame callbacks
  pending,              \* loadData calls awaiting their fetch
  now,                  \* wall clock, ms
  infoPopup,            \* the event the application's info box shows
  restoreTimers         \* the application's highlight-restore timers, oldest first

vars == <<earthquakeData, timeRange, currentTime, isPlaying, playbackSpeed,
          lastFrameTime, animationId, manuallyPaused, selectedFeatureId,
          hasVisualMap, earthquakeVisualMap, group,
          scheduled, pending, now, infoPopup, restoreTimers>>

\* -------------------------------------------------------- pure functions
\* A JavaScript number: <<"num", v>>, <<"NaN", 0>>, or <<"Infinity", sign>>.
Num(v) == <<"num", v>>
NaN == <<"NaN", 0>>
Inf(sign) == <<"Infinity", sign>>
Neg(n) == IF n[1] = "num" THEN Num(-n[2]) ELSE IF n[1] = "NaN" THEN NaN ELSE Inf(-n[2])

\* ((v - lo) / (hi - lo)) * size - size / 2, with IEEE division by zero.
\* The quotient is multiplied by size before dividing, which is exact for
\* the extents and coordinates of this model.
Interpolate(v, lo, hi, size) ==
  IF hi - lo # 0
    THEN Num(((v - lo) * size) \div (hi - lo) - size \div 2)
    ELSE IF v - lo = 0 \/ size = 0 THEN NaN
         ELSE Inf(IF (v - lo > 0) = (size > 0) THEN 1 ELSE -1)

\* The mapper without 'x = -x': longitude is not mirrored.
geoToTerrain_NoMirror(lat, lon, depth, terrainBounds) ==
  [x |-> Interpolate(lon, terrainBounds.minLon, terrainBounds.maxLon, terrainBounds.width),
   y |-> Interpolate(lat, terrainBounds.minLat, terrainBounds.maxLat, terrainBounds.height),
   z |-> Num(-((depth * 1000) \div 25))]

geoToTerrain(lat, lon, depth, terrainBounds) ==
  [x |-> Neg(Interpolate(lon, terrainBounds.minLon, terrainBounds.maxLon, terrainBounds.width)),
   y |-> Interpolate(lat, terrainBounds.minLat, terrainBounds.maxLat, terrainBounds.height),
   z |-> Num(-((depth * 1000) \div 25))]

\* num / den as a numerator over Den.
Frac(num, den) == (num * Den) \div den

\* The scale without the growth-in: full size from age 0 on.
ScaleOf_NoGrowth(age) == IF age < 0 THEN 0 ELSE Den

ScaleOf(age) ==
  IF age >= 0 /\ age < HourInUnits THEN Frac(age, HourInUnits)
  ELSE IF age < 0 THEN 0
  ELSE Den

\* The opacity without the 0.1 floor: old events fade out completely.
OpacityOf_NoFloor(age) ==
  IF age > 48 * HourInUnits
    THEN Max(0, Den - Frac(age - 48 * HourInUnits, 24 * 5 * HourInUnits))
  ELSE IF age < 0 THEN 0
  ELSE Den

OpacityOf(age) ==
  IF age > 48 * HourInUnits
    THEN Max(Den \div 10, Max(0, Den - Frac(age - 48 * HourInUnits, 24 * 5 * HourInUnits)))
  ELSE IF age < 0 THEN 0
  ELSE Den

\* The glow without the ramps: 12.0 up to 12 h, 6.0 up to 48 h.
BloomOf_Stepped(age) ==
  IF age <= 12 * HourInUnits /\ age >= 0 THEN 12 * Den
  ELSE IF age > 12 * HourInUnits /\ age <= 48 * HourInUnits THEN 6 * Den
  ELSE (12 * Den) \div 10

BloomOf(age) ==
  IF age <= 2 * HourInUnits /\ age >= 0 THEN 12 * Den
  ELSE IF age > 2 * HourInUnits /\ age <= 12 * HourInUnits
    THEN 12 * Den - Frac(age - 2 * HourInUnits, 10 * HourInUnits) * 6
  ELSE IF age > 12 * HourInUnits /\ age <= 48 * HourInUnits
    THEN 6 * Den - Frac(age - 12 * HourInUnits, 36 * HourInUnits) * 4
  ELSE (12 * Den) \div 10

Rgb(r, g, b) == r * 65536 + g * 256 + b

ageColor(age) ==
  IF age < 0 THEN Rgb(255, 0, 0)
  ELSE IF age <= 2 * HourInUnits THEN Rgb(255, 0, 0)
  ELSE IF age <= 48 * HourInUnits
    THEN Rgb(255, (165 * (age - 2 * HourInUnits)) \div ((48 - 2) * HourInUnits), 0)
  ELSE Rgb(255, 255, 0)

White == <<Rgb(255, 255, 255), Den>>

\* Array.prototype.sort with (a, b) => a.time - b.time: stable, ascending.
RECURSIVE InsertByTime(_, _)
InsertByTime(sorted, id) ==
  IF sorted = <<>> THEN <<id>>
  ELSE IF Feature(sorted[Len(sorted)]).time <= Feature(id).time THEN Append(sorted, id)
  ELSE Append(InsertByTime(SubSeq(sorted, 1, Len(sorted) - 1), id), sorted[Len(sorted)])

RECURSIVE SortByTime(_)
SortByTime(features) ==
  IF features = <<>> THEN <<>>
  ELSE InsertByTime(SortByTime(SubSeq(features, 1, Len(features) - 1)), features[Len(features)])

Range(seq) == {seq[i] : i \in 1..Len(seq)}
IndexOf(seq, x) == CHOOSE i \in 1..Len(seq) : seq[i] = x

\* Date.now() in time units.
DateNow == WallEpoch + now \div MsPerUnit

\* ---------------------------------------------------------- highlighting
highlightEarthquake(map, featureId) ==
  [id \in DOMAIN map |->
     IF id # featureId
       THEN [map[id] EXCEPT !.color = map[id].originalColor,
                            !.lineColor = map[id].originalLineColor,
                            !.opacity = map[id].originalOpacity,
                            !.lineOpacity = map[id].originalOpacity]
       ELSE [map[id] EXCEPT !.color = White, !.lineColor = White,
                            !.opacity = Den, !.lineOpacity = Den]]

unhighlightEarthquake(map, featureId) ==
  [id \in DOMAIN map |->
     IF id = featureId
       THEN [map[id] EXCEPT !.color = map[id].originalColor,
                            !.lineColor = map[id].originalLineColor,
                            !.opacity = map[id].originalOpacity,
                            !.lineOpacity = map[id].originalOpacity]
       ELSE map[id]]

\* ------------------------------------------------------------- visualize
\* The features the forEach does not skip.
Visible(timeFilter) ==
  SelectSeq(earthquakeData,
            LAMBDA id : ~(timeFilter # NullTime /\ Feature(id).time > timeFilter))

\* The features the forEach of a pass with cutoff timeFilter calls its
\* callback on: the whole store, the cutoff test being inside the callback.
Examined(timeFilter) == IF Len(earthquakeData) = 0 THEN <<>> ELSE earthquakeData

\* The identity of the k-th object allocated while the entries of map are
\* live: the k-th identity no live entry has.
FreshUid(map, k) ==
  CHOOSE u \in 1..(2 * Cardinality(Ids)) :
    /\ u \notin {map[id].uid : id \in DOMAIN map}
    /\ Cardinality({v \in 1..u : v \notin {map[id].uid : id \in DOMAIN map}}) = k

\* Created without the reuse test: every visible feature gets a new entry.
Created_NoReuse(map, timeFilter) == Visible(timeFilter)

\* The features for which the pass allocates a new entry, in order.
Created(map, timeFilter) ==
  SelectSeq(Visible(timeFilter), LAMBDA id : id \notin DOMAIN map)

\* The entry with the depth segment laid out at creation only: the update
\* block moves the marker and leaves the segment where it was.
UpdatedEntry_SegmentNotMoved(map, id, terrainBounds, timeFilter) ==
  LET f == Feature(id)
      position == geoToTerrain(f.lat, f.lon, f.depth, terrainBounds)
      referenceTime == IF timeFilter # NullTime THEN timeFilter ELSE DateNow
      age == referenceTime - f.time
      baseColor == ageColor(age)
      bloomColor == <<baseColor, BloomOf(age)>>
      lineColor == <<baseColor, 2 * Den>>
      entry ==
        IF id \notin Range(Created(map, timeFilter)) THEN map[id]
        ELSE [uid |-> FreshUid(map, IndexOf(Created(map, timeFilter), id)),
              position |-> <<position.x, position.z, position.y>>,
              scale |-> Den,
              color |-> bloomColor,
              opacity |-> Den,
              linePoints |-> <<position.x, Num(0), position.y,
                               position.x, position.z, position.y>>,
              lineColor |-> lineColor,
              lineOpacity |-> Den,
              originalColor |-> bloomColor,
              originalLineColor |-> lineColor,
              originalOpacity |-> Den]
  IN [entry EXCEPT !.position = <<position.x, position.z, position.y>>,
                   !.scale = 3 * ScaleOf(age),
                   !.color = bloomColor,
                   !.opacity = OpacityOf(age),
                   !.lineColor = lineColor,
                   !.lineOpacity = OpacityOf(age)]

\* The entry of feature id after the "reuse or create" and "update" blocks.
UpdatedEntry(map, id, terrainBounds, timeFilter) ==
  LET f == Feature(id)
      position == geoToTerrain(f.lat, f.lon, f.depth, terrainBounds)
      referenceTime == IF timeFilter # NullTime THEN timeFilter ELSE DateNow
      age == referenceTime - f.time
      baseColor == ageColor(age)
      bloomColor == <<baseColor, BloomOf(age)>>
      lineColor == <<baseColor, 2 * Den>>
      entry ==
        IF id \notin Range(Created(map, timeFilter)) THEN map[id]
        ELSE [uid |-> FreshUid(map, IndexOf(Created(map, timeFilter), id)),
              position |-> <<position.x, position.z, position.y>>,
              scale |-> Den,
              color |-> bloomColor,
              opacity |-> Den,
              linePoints |-> <<position.x, Num(0), position.y,
                               position.x, position.z, position.y>>,
              lineColor |-> lineColor,
              lineOpacity |-> Den,
              originalColor |-> bloomColor,
              originalLineColor |-> lineColor,
              originalOpacity |-> Den]
  IN [entry EXCEPT !.position = <<position.x, position.z, position.y>>,
                   !.scale = 3 * ScaleOf(age),
                   !.color = bloomColor,
                   !.opacity = OpacityOf(age),
                   !.linePoints = <<position.x, Num(0), position.y,
                                    position.x, position.z, position.y>>,
                   !.lineColor = lineColor,
                   !.lineOpacity = OpacityOf(age)]

\* The cleanup test inverted: the loop evicts the entries that are active.
Stale_Inverted(map, activeIds) == DOMAIN map \cap activeIds

\* The "cleanup old" loop: the identifiers it evicts.
Stale(map, activeIds) == DOMAIN map \ activeIds

\* The scene objects of the entries of map with an identifier in ids.
ObjectsOf(map, ids) ==
  UNION {{<<map[id].uid, "sphere">>, <<map[id].uid, "line">>} : id \in ids}

\* The overlay's pool: the map, whether it has been created, and the
\* children of the scene group.
Pool == [hasMap |-> hasVisualMap, map |-> earthquakeVisualMap, group |-> group]

\* visualize(terrainBounds, timeFilter) run on the pool p with selection
\* selected: the pool after the call, the identifiers for which it allocated
\* an entry and the object identities it released.
Reconcile(p, selected, terrainBounds, timeFilter) ==
  IF Len(earthquakeData) = 0
    THEN [ran |-> FALSE, hasMap |-> p.hasMap, map |-> p.map, group |-> p.group,
          created |-> {}, released |-> {}]
    ELSE
      LET activeIds == Range(Visible(timeFilter))
          created == Range(Created(p.map, timeFilter))
          stale == Stale(p.map, activeIds)
          updated ==
            [id \in DOMAIN p.map \cup activeIds |->
               IF id \in activeIds
                 THEN UpdatedEntry(p.map, id, terrainBounds, timeFilter)
                 ELSE p.map[id]]
          reconciled == [id \in DOMAIN updated \ stale |-> updated[id]]
      IN [ran |-> TRUE,
          hasMap |-> TRUE,
          map |-> IF selected # NullId /\ selected \in DOMAIN reconciled
                    THEN highlightEarthquake(reconciled, selected)
                    ELSE reconciled,
          group |-> (p.group \cup ObjectsOf(updated, created)) \ ObjectsOf(p.map, stale),
          created |-> created,
          released |-> {p.map[id].uid : id \in stale}]

\* visualize without the highlight reapplied at the end of the pass.
visualize_NoReapply(terrainBounds, timeFilter) ==
  Reconcile(Pool, NullId, terrainBounds, timeFilter)

visualize(terrainBounds, timeFilter) ==
  Reconcile(Pool, selectedFeatureId, terrainBounds, timeFilter)

\* ------------------------------------------------- effect of an operation
appVars == <<infoPopup, restoreTimers>>
poolVars == <<hasVisualMap, earthquakeVisualMap, group>>
playVars == <<isPlaying, lastFrameTime, animationId, manuallyPaused, scheduled>>
dataVars == <<earthquakeData, timeRange>>

\* The operation made a visualize call, with result r.
Visualized(r) ==
  /\ hasVisualMap' = r.hasMap
  /\ earthquakeVisualMap' = r.map
  /\ group' = r.group

\* cancelAnimationFrame(handle)
Cancel(handle) == {cb \in scheduled : cb.id # handle}

\* The handle requestAnimationFrame returns: one no outstanding callback has.
\* Every caller stores it in animationId at once, so no older handle aliases it.
NewHandle(outstanding) ==
  CHOOSE h \in 1..(MaxScheduled + 1) :
    /\ h \notin {cb.id : cb \in outstanding}
    /\ \A g \in 1..(h - 1) : g \in {cb.id : cb \in outstanding}

\* animate that never clamps the cursor to the end of the range.
animate_NoClamp(terrainBounds, lft, outstanding) ==
  LET deltaTime == now - lft
      advanced == currentTime + (deltaTime * playbackSpeed * dayInMs) \div 1000
      atEnd == advanced >= timeRange.end
  IN /\ lastFrameTime' = now
     /\ currentTime' = advanced
     /\ isPlaying' = ~atEnd
     /\ Visualized(visualize(terrainBounds, advanced))
     /\ IF atEnd
          THEN /\ animationId' = NoHandle
               /\ scheduled' = outstanding
          ELSE /\ Cardinality(outstanding) < MaxScheduled
               /\ animationId' = NewHandle(outstanding)
               /\ scheduled' = outstanding \cup
                                 {[id |-> NewHandle(outstanding), tb |-> terrainBounds]}

\* animate that goes on requesting frames after the cursor reached the end.
animate_KeepsTicking(terrainBounds, lft, outstanding) ==
  LET deltaTime == now - lft
      advanced == currentTime + (deltaTime * playbackSpeed * dayInMs) \div 1000
      atEnd == advanced >= timeRange.end
      cursor == IF atEnd THEN timeRange.end ELSE advanced
  IN /\ lastFrameTime' = now
     /\ currentTime' = cursor
     /\ isPlaying' = TRUE
     /\ Visualized(visualize(terrainBounds, cursor))
     /\ Cardinality(outstanding) < MaxScheduled
     /\ animationId' = NewHandle(outstanding)
     /\ scheduled' = outstanding \cup
                       {[id |-> NewHandle(outstanding), tb |-> terrainBounds]}

\* animate(terrainBounds) entered with this.isPlaying true, lastFrameTime
\* lft and the callbacks in outstanding still scheduled.
animate(terrainBounds, lft, outstanding) ==
  LET deltaTime == now - lft
      advanced == currentTime + (deltaTime * playbackSpeed * dayInMs) \div 1000
      atEnd == advanced >= timeRange.end
      cursor == IF atEnd THEN timeRange.end ELSE advanced
  IN /\ lastFrameTime' = now
     /\ currentTime' = cursor
     /\ isPlaying' = ~atEnd
     /\ Visualized(visualize(terrainBounds, cursor))
     /\ IF atEnd
          THEN /\ animationId' = NoHandle
               /\ scheduled' = outstanding
          ELSE /\ Cardinality(outstanding) < MaxScheduled
               /\ animationId' = NewHandle(outstanding)
               /\ scheduled' = outstanding \cup
                                 {[id |-> NewHandle(outstanding), tb |-> terrainBounds]}

\* ------------------------------------------------------------------ Init
Init ==
  /\ earthquakeData = <<>>
  /\ timeRange = [start |-> NullTime, end |-> NullTime]
  /\ currentTime = NullTime
  /\ isPlaying = FALSE
  /\ playbackSpeed = 1
  /\ lastFrameTime = 0
  /\ animationId = NoHandle
  /\ manuallyPaused = FALSE
  /\ selectedFeatureId = NullId
  /\ hasVisualMap = FALSE
  /\ earthquakeVisualMap = <<>>
  /\ group = {}
  /\ scheduled = {}
  /\ pending = 0
  /\ now = 0
  /\ infoPopup = NullId
  /\ restoreTimers = <<>>

\* --------------------------------------------------------------- loading
\* loadData up to its first await: the fetch is issued.
LoadData ==
  /\ pending < MaxPending
  /\ pending' = pending + 1
  /\ UNCHANGED <<dataVars, currentTime, playVars, playbackSpeed, selectedFeatureId,
                 poolVars, now, appVars>>

\* loadData that keeps the features in the order the response lists them.
LoadResolve_Unsorted(features) ==
  /\ pending > 0
  /\ pending' = pending - 1
  /\ earthquakeData' = features
  /\ IF Len(features) > 0
       THEN /\ timeRange' = [start |-> Feature(features[1]).time,
                             end |-> Feature(features[Len(features)]).time]
            /\ currentTime' = Feature(features[1]).time
       ELSE UNCHANGED <<timeRange, currentTime>>
  /\ UNCHANGED <<playVars, playbackSpeed, selectedFeatureId, poolVars, now, appVars>>

\* loadData resumed with the parsed response: data.features = features.
LoadResolve(features) ==
  /\ pending > 0
  /\ pending' = pending - 1
  /\ earthquakeData' = SortByTime(features)
  /\ IF Len(features) > 0
       THEN /\ timeRange' = [start |-> Feature(SortByTime(features)[1]).time,
                             end |-> Feature(SortByTime(features)[Len(features)]).time]
            /\ currentTime' = Feature(SortByTime(features)[1]).time
       ELSE UNCHANGED <<timeRange, currentTime>>
  /\ UNCHANGED <<playVars, playbackSpeed, selectedFeatureId, poolVars, now, appVars>>

\* What loadData, resumed with data.features = features, assigns, starting
\* from the event list, Time Range and cursor in store.  The continuation
\* reads nothing that tells which request the response answers.
Store == [earthquakeData |-> earthquakeData, timeRange |-> timeRange,
          currentTime |-> currentTime]
loadDataResolved(store, features) ==
  IF Len(features) > 0
    THEN [earthquakeData |-> SortByTime(features),
          timeRange |-> [start |-> Feature(SortByTime(features)[1]).time,
                         end |-> Feature(SortByTime(features)[Len(features)]).time],
          currentTime |-> Feature(SortByTime(features)[1]).time]
    ELSE [store EXCEPT !.earthquakeData = <<>>]

\* loadData resumed with a rejected fetch: the catch block rethrows.
LoadReject ==
  /\ pending > 0
  /\ pending' = pending - 1
  /\ UNCHANGED <<dataVars, currentTime, playVars, playbackSpeed, selectedFeatureId,
                 poolVars, now, appVars>>

\* loadData resumed with a parsed response one of whose features has no
\* properties: this.earthquakeData is assigned, then the sort's comparator
\* throws (sort leaves the array as it was) and the catch block rethrows.
LoadMalformed(features) ==
  /\ pending > 0
  /\ pending' = pending - 1
  /\ earthquakeData' = features
  /\ UNCHANGED <<timeRange, currentTime, playVars, playbackSpeed, selectedFeatureId,
                 poolVars, now, appVars>>

clearData ==
  /\ earthquakeData' = <<>>
  /\ group' = {}
  /\ timeRange' = [start |-> NullTime, end |-> NullTime]
  /\ currentTime' = NullTime
  /\ UNCHANGED <<playVars, playbackSpeed, selectedFeatureId, hasVisualMap,
                 earthquakeVisualMap, pending, now, appVars>>

\* The application's loadEarthquakeData listener up to the fetch:
\* clearData(), then loadData(...) whatever else is in flight.
loadEarthquakeData ==
  /\ pending < MaxInFlight
  /\ pending' = pending + 1
  /\ earthquakeData' = <<>>
  /\ group' = {}
  /\ timeRange' = [start |-> NullTime, end |-> NullTime]
  /\ currentTime' = NullTime
  /\ UNCHANGED <<playVars, playbackSpeed, selectedFeatureId, hasVisualMap,
                 earthquakeVisualMap, now, appVars>>

\* A direct call visualize(terrainBounds, timeFilter).
Visualize(terrainBounds, timeFilter) ==
  /\ Visualized(visualize(terrainBounds, timeFilter))
  /\ UNCHANGED <<dataVars, currentTime, playVars, playbackSpeed, selectedFeatureId,
                 pending, now, appVars>>

\* -------------------------------------------------------------- playback
\* play without the Time Range test.
play_NoRangeGuard(terrainBounds) ==
  IF manuallyPaused
    THEN UNCHANGED <<dataVars, currentTime, playVars, playbackSpeed,
                     selectedFeatureId, poolVars, pending, now, appVars>>
    ELSE /\ manuallyPaused' = FALSE
         /\ animate(terrainBounds, now, scheduled)
         /\ UNCHANGED <<dataVars, playbackSpeed, selectedFeatureId, pending, now, appVars>>

\* play without the manual-pause test.
play_NoPauseGuard(terrainBounds) ==
  IF timeRange.start = NullTime \/ timeRange.end = NullTime
    THEN UNCHANGED <<dataVars, currentTime, playVars, playbackSpeed,
                     selectedFeatureId, poolVars, pending, now, appVars>>
    ELSE /\ manuallyPaused' = FALSE
         /\ animate(terrainBounds, now, scheduled)
         /\ UNCHANGED <<dataVars, playbackSpeed, selectedFeatureId, pending, now, appVars>>

play(terrainBounds) ==
  IF timeRange.start = NullTime \/ timeRange.end = NullTime \/ manuallyPaused
    THEN UNCHANGED <<dataVars, currentTime, playVars, playbackSpeed,
                        selectedFeatureId, poolVars, pending, now, appVars>>
    ELSE /\ manuallyPaused' = FALSE
         /\ animate(terrainBounds, now, scheduled)
         /\ UNCHANGED <<dataVars, playbackSpeed, selectedFeatureId, pending, now, appVars>>

\* The timeline's play button: clears the flag, then calls play.
PlayButton(terrainBounds) ==
  IF timeRange.start = NullTime \/ timeRange.end = NullTime
    THEN /\ manuallyPaused' = FALSE
         /\ UNCHANGED <<dataVars, currentTime, isPlaying, lastFrameTime, animationId,
                        scheduled, playbackSpeed, selectedFeatureId, poolVars,
                        pending, now, appVars>>
    ELSE /\ manuallyPaused' = FALSE
         /\ animate(terrainBounds, now, scheduled)
         /\ UNCHANGED <<dataVars, playbackSpeed, selectedFeatureId, pending, now, appVars>>

pause ==
  /\ isPlaying' = FALSE
  /\ manuallyPaused' = TRUE
  /\ IF animationId # NoHandle
       THEN scheduled' = Cancel(animationId) /\ animationId' = NoHandle
       ELSE UNCHANGED <<scheduled, animationId>>
  /\ UNCHANGED <<dataVars, currentTime, lastFrameTime, playbackSpeed,
                 selectedFeatureId, poolVars, pending, now, appVars>>

\* stop without its reconciliation pass.
stop_NoPass(terrainBounds) ==
  /\ isPlaying' = FALSE
  /\ IF animationId # NoHandle
       THEN scheduled' = Cancel(animationId) /\ animationId' = NoHandle
       ELSE UNCHANGED <<scheduled, animationId>>
  /\ currentTime' = timeRange.start
  /\ UNCHANGED <<dataVars, lastFrameTime, manuallyPaused, playbackSpeed,
                 selectedFeatureId, poolVars, pending, now, appVars>>

stop(terrainBounds) ==
  /\ isPlaying' = FALSE
  /\ IF animationId # NoHandle
       THEN scheduled' = Cancel(animationId) /\ animationId' = NoHandle
       ELSE UNCHANGED <<scheduled, animationId>>
  /\ currentTime' = timeRange.start
  /\ Visualized(visualize(terrainBounds, timeRange.start))
  /\ UNCHANGED <<dataVars, lastFrameTime, manuallyPaused, playbackSpeed,
                 selectedFeatureId, pending, now, appVars>>

\* setTime that clamps the time into the Time Range.
setTime_Clamped(time, terrainBounds) ==
  /\ currentTime' = Max(timeRange.start, Min(time, timeRange.end))
  /\ Visualized(visualize(terrainBounds, Max(timeRange.start, Min(time, timeRange.end))))
  /\ UNCHANGED <<dataVars, playVars, playbackSpeed, selectedFeatureId, pending, now, appVars>>

setTime(time, terrainBounds) ==
  /\ currentTime' = time
  /\ Visualized(visualize(terrainBounds, time))
  /\ UNCHANGED <<dataVars, playVars, playbackSpeed, selectedFeatureId, pending, now, appVars>>

\* A scheduled animation-frame callback runs: () => this.animate(terrainBounds).
Tick(cb) ==
  /\ cb \in scheduled
  /\ IF ~isPlaying
       THEN /\ scheduled' = scheduled \ {cb}
            /\ UNCHANGED <<dataVars, currentTime, isPlaying, lastFrameTime,
                           animationId, manuallyPaused, playbackSpeed,
                           selectedFeatureId, poolVars, pending, now, appVars>>
       ELSE /\ animate(cb.tb, lastFrameTime, scheduled \ {cb})
            /\ UNCHANGED <<dataVars, manuallyPaused, playbackSpeed,
                           selectedFeatureId, pending, now, appVars>>

\* setPlaybackSpeed restarting the frame clock as well.
setPlaybackSpeed_Rebased(speed) ==
  /\ playbackSpeed' = speed
  /\ lastFrameTime' = now
  /\ UNCHANGED <<dataVars, currentTime, isPlaying, animationId, manuallyPaused,
                 scheduled, selectedFeatureId, poolVars, pending, now, appVars>>

setPlaybackSpeed(speed) ==
  /\ playbackSpeed' = speed
  /\ UNCHANGED <<dataVars, currentTime, playVars, selectedFeatureId, poolVars,
                 pending, now, appVars>>

\* ------------------------------------------------------------- selection
\* setSelectedEarthquake(featureId) on the pool map p.map with selection
\* selected: the selection and the map after the call.
SetSelected(p, selected, featureId) ==
  IF selected = featureId
    THEN [selected |-> selected, map |-> p.map]
    ELSE
      LET restored == IF selected # NullId /\ p.hasMap
                        THEN unhighlightEarthquake(p.map, selected)
                        ELSE p.map
      IN [selected |-> featureId,
          map |-> IF p.hasMap /\ featureId # NullId
                    THEN highlightEarthquake(restored, featureId)
                    ELSE restored]

setSelectedEarthquake(featureId) ==
  /\ selectedFeatureId' = SetSelected(Pool, selectedFeatureId, featureId).selected
  /\ earthquakeVisualMap' = SetSelected(Pool, selectedFeatureId, featureId).map
  /\ UNCHANGED <<dataVars, currentTime, playVars, playbackSpeed, hasVisualMap,
                 group, pending, now, appVars>>

clearSelectedEarthquake(terrainBounds) ==
  IF selectedFeatureId = NullId
    THEN UNCHANGED <<dataVars, currentTime, playVars, playbackSpeed,
                        selectedFeatureId, poolVars, pending, now, appVars>>
    ELSE
      LET restored == IF hasVisualMap
                        THEN unhighlightEarthquake(earthquakeVisualMap, selectedFeatureId)
                        ELSE earthquakeVisualMap
      IN /\ selectedFeatureId' = NullId
         /\ Visualized(Reconcile([Pool EXCEPT !.map = restored], NullId,
                                 terrainBounds, currentTime))
         /\ UNCHANGED <<dataVars, currentTime, playVars, playbackSpeed, pending, now, appVars>>

\* ------------------------------------------------------------ wall clock
AdvanceClock(delta) ==
  /\ now + delta <= MaxNow
  /\ now' = now + delta
  /\ UNCHANGED <<dataVars, currentTime, playVars, playbackSpeed, selectedFeatureId,
                 poolVars, pending, appVars>>

\* ------------------------------------------------------------ application
\* The markers a pick ray can hit: the meshes among the group's children.
Hittable ==
  {id \in DOMAIN earthquakeVisualMap :
     <<earthquakeVisualMap[id].uid, "sphere">> \in group}

\* checkEarthquakeIntersection treating a click while Playing like any
\* other: it goes on to the hit-test.
checkEarthquakeIntersection_NoFirstClick(target) ==
  IF target = NullId
    THEN /\ infoPopup' = NullId
         /\ UNCHANGED <<dataVars, currentTime, playVars, playbackSpeed,
                        selectedFeatureId, poolVars, pending, now, restoreTimers>>
    ELSE /\ Len(restoreTimers) < MaxTimers
         /\ isPlaying' = FALSE
         /\ manuallyPaused' = TRUE
         /\ IF animationId # NoHandle
              THEN scheduled' = Cancel(animationId) /\ animationId' = NoHandle
              ELSE UNCHANGED <<scheduled, animationId>>
         /\ infoPopup' = target
         /\ earthquakeVisualMap' =
              [earthquakeVisualMap EXCEPT ![target].color = White]
         /\ restoreTimers' =
              Append(restoreTimers, [uid |-> earthquakeVisualMap[target].uid,
                                     color |-> earthquakeVisualMap[target].color])
         /\ UNCHANGED <<dataVars, currentTime, lastFrameTime, playbackSpeed,
                        selectedFeatureId, hasVisualMap, group, pending, now>>

\* A click on the canvas (mouseup without a drag) with the overlay visible;
\* target is the marker the pick ray would hit first, NullId when none.
\* While Playing the click only pauses.  Otherwise a hit pauses, shows the
\* event's details, saves the marker's colour, turns it white and starts
\* the 1 s timer that copies the saved colour back; a miss hides the details.
checkEarthquakeIntersection(target) ==
  IF isPlaying
    THEN pause
    ELSE IF target = NullId
      THEN /\ infoPopup' = NullId
           /\ UNCHANGED <<dataVars, currentTime, playVars, playbackSpeed,
                          selectedFeatureId, poolVars, pending, now, restoreTimers>>
      ELSE /\ Len(restoreTimers) < MaxTimers
           /\ isPlaying' = FALSE
           /\ manuallyPaused' = TRUE
           /\ IF animationId # NoHandle
                THEN scheduled' = Cancel(animationId) /\ animationId' = NoHandle
                ELSE UNCHANGED <<scheduled, animationId>>
           /\ infoPopup' = target
           /\ earthquakeVisualMap' =
                [earthquakeVisualMap EXCEPT ![target].color = White]
           /\ restoreTimers' =
                Append(restoreTimers, [uid |-> earthquakeVisualMap[target].uid,
                                       color |-> earthquakeVisualMap[target].color])
           /\ UNCHANGED <<dataVars, currentTime, lastFrameTime, playbackSpeed,
                          selectedFeatureId, hasVisualMap, group, pending, now>>

\* The oldest restore timer fires: the saved colour is copied onto the mesh
\* the timer holds, which changes the pool only while that mesh is in it.
RestoreTimer ==
  /\ restoreTimers # <<>>
  /\ restoreTimers' = Tail(restoreTimers)
  /\ earthquakeVisualMap' =
       [id \in DOMAIN earthquakeVisualMap |->
          IF earthquakeVisualMap[id].uid = Head(restoreTimers).uid
            THEN [earthquakeVisualMap[id] EXCEPT !.color = Head(restoreTimers).color]
            ELSE earthquakeVisualMap[id]]
  /\ UNCHANGED <<dataVars, currentTime, playVars, playbackSpeed, selectedFeatureId,
                 hasVisualMap, group, pending, now, infoPopup>>

\* ------------------------------------------------------------------ Next
Next ==
  \/ LoadData
  \/ \E features \in Responses : LoadResolve(features)
  \/ LoadReject
  \/ clearData
  \/ \E tb \in Extents, timeFilter \in Cutoffs \cup {currentTime} : Visualize(tb, timeFilter)
  \/ \E tb \in Extents : play(tb)
  \/ \E tb \in Extents : PlayButton(tb)
  \/ pause
  \/ \E tb \in Extents : stop(tb)
  \/ \E time \in SeekTimes, tb \in Extents : setTime(time, tb)
  \/ \E cb \in scheduled : Tick(cb)
  \/ \E speed \in Speeds : setPlaybackSpeed(speed)
  \/ \E featureId \in Selectable : setSelectedEarthquake(featureId)
  \/ \E tb \in Extents : clearSelectedEarthquake(tb)
  \/ \E delta \in FrameDeltas : AdvanceClock(delta)
  \/ \E target \in Hittable \cup {NullId} : checkEarthquakeIntersection(target)
  \/ RestoreTimer

Spec == Init /\ [][Next]_vars

\* The overlay driven through its pool: loading, visualize, seeks, stop,
\* playback ticks and selection.
NextPool ==
  \/ LoadData
  \/ \E features \in Responses : LoadResolve(features)
  \/ LoadReject
  \/ clearData
  \/ \E tb \in Extents, timeFilter \in Cutoffs \cup {currentTime} : Visualize(tb, timeFilter)
  \/ \E tb \in Extents : play(tb)
  \/ \E tb \in Extents : stop(tb)
  \/ \E time \in SeekTimes, tb \in Extents : setTime(time, tb)
  \/ \E cb \in scheduled : Tick(cb)
  \/ \E featureId \in Selectable : setSelectedEarthquake(featureId)
  \/ \E tb \in Extents : clearSelectedEarthquake(tb)
  \/ \E delta \in FrameDeltas : AdvanceClock(delta)

SpecPool == Init /\ [][NextPool]_vars

\* The overlay driven through its playback controls.
NextPlay ==
  \/ LoadData
  \/ \E features \in Responses : LoadResolve(features)
  \/ LoadReject
  \/ clearData
  \/ \E tb \in Extents : play(tb)
  \/ \E tb \in Extents : PlayButton(tb)
  \/ pause
  \/ \E tb \in Extents : stop(tb)
  \/ \E time \in SeekTimes, tb \in Extents : setTime(time, tb)
  \/ \E cb \in scheduled : Tick(cb)
  \/ \E speed \in Speeds : setPlaybackSpeed(speed)
  \/ \E delta \in FrameDeltas : AdvanceClock(delta)

SpecPlay == Init /\ [][NextPlay]_vars

\* ------------------------------------------------- playback left to run
\* The wall clock has no last instant.  The code reads it only through
\* now - lastFrameTime (and Date.now() in whole time units, which no instant
\* of 0..MaxNow changes), so the clock is kept inside 0..MaxNow by moving its
\* origin to the last frame reference.
ShiftEpoch ==
  /\ lastFrameTime > 0
  /\ now' = now - lastFrameTime
  /\ lastFrameTime' = 0
  /\ UNCHANGED <<dataVars, currentTime, isPlaying, animationId, manuallyPaused,
                 scheduled, playbackSpeed, selectedFeatureId, poolVars, pending,
                 appVars>>

\* Playback with nothing intervening: no pause, stop, seek or clearData, and
\* no load completing while the controller is Playing or a frame it
\* requested is still to be delivered.
NextLive ==
  \/ LoadData
  \/ \E features \in Responses :
       ~isPlaying /\ scheduled = {} /\ LoadResolve(features)
  \/ LoadReject
  \/ \E tb \in Extents : play(tb)
  \/ \E cb \in scheduled : Tick(cb)
  \/ \E speed \in Speeds : setPlaybackSpeed(speed)
  \/ \E delta \in FrameDeltas : AdvanceClock(delta)
  \/ ShiftEpoch

\* Every requested animation frame is eventually delivered and the wall
\* clock keeps advancing.
SpecLive ==
  /\ Init
  /\ [][NextLive]_vars
  /\ WF_vars(\E cb \in scheduled : Tick(cb))
  /\ WF_vars(\E delta \in FrameDeltas : AdvanceClock(delta))
  /\ WF_vars(ShiftEpoch)

\* The playback controls with seeks that the caller did not clamp.
NextSeek ==
  \/ LoadData
  \/ \E features \in Responses : LoadResolve(features)
  \/ LoadReject
  \/ clearData
  \/ \E tb \in Extents : play(tb)
  \/ pause
  \/ \E tb \in Extents : stop(tb)
  \/ \E time \in SeekTimes \cup FarSeekTimes, tb \in Extents : setTime(time, tb)
  \/ \E cb \in scheduled : Tick(cb)
  \/ \E speed \in Speeds : setPlaybackSpeed(speed)
  \/ \E delta \in FrameDeltas : AdvanceClock(delta)

SpecSeek == Init /\ [][NextSeek]_vars

\* The overlay under the application's loading: the initial loadData, the
\* loadEarthquakeData listener, and fetches that resolve, reject or return a
\* malformed feature.  The operations that iterate the features run on
\* well-formed lists only.
NextLoad ==
  \/ LoadData
  \/ loadEarthquakeData
  \/ \E features \in Responses : LoadResolve(features)
  \/ \E features \in MalformedResponses : LoadMalformed(features)
  \/ LoadReject
  \/ clearData
  \/ /\ WellFormed(earthquakeData)
     /\ \/ \E tb \in Extents : Visualize(tb, currentTime)
        \/ \E tb \in Extents : play(tb)
        \/ \E tb \in Extents : stop(tb)
        \/ \E time \in SeekTimes, tb \in Extents : setTime(time, tb)
        \/ \E cb \in scheduled : Tick(cb)
  \/ pause
  \/ \E delta \in FrameDeltas : AdvanceClock(delta)

SpecLoad == Init /\ [][NextLoad]_vars

\* ------------------------------------------------------------- callbacks
\* The calls each operation makes to the registered callbacks, in order,
\* as <<name, argument>>; the operation's state change is its action above.
OnTimeRangeChange(range) == <<"onTimeRangeChange", range>>
OnTimeChange(time) == <<"onTimeChange", time>>
OnVisualize == <<"onVisualize", NullTime>>

\* visualize: the early return makes no call, a completed pass ends with one.
visualizeCalls(r) == IF r.ran THEN <<OnVisualize>> ELSE <<>>

\* loadData resolving with features: the call sits inside the length > 0 block.
loadDataCalls(features) ==
  IF Len(features) > 0
    THEN <<OnTimeRangeChange([start |-> Feature(SortByTime(features)[1]).time,
                              end |-> Feature(SortByTime(features)[Len(features)]).time])>>
    ELSE <<>>

\* loadData rejecting (fetch, parse or sort threw), and clearData.
loadDataFailedCalls == <<>>
clearDataCalls == <<>>

setTimeCalls(time, terrainBounds) ==
  <<OnTimeChange(time)>> \o visualizeCalls(visualize(terrainBounds, time))

stopCalls(terrainBounds) ==
  <<OnTimeChange(timeRange.start)>>
    \o visualizeCalls(visualize(terrainBounds, timeRange.start))

\* animate entered with isPlaying true: visualize first, then onTimeChange.
animateCalls(terrainBounds, lft) ==
  LET deltaTime == now - lft
      advanced == currentTime + (deltaTime * playbackSpeed * dayInMs) \div 1000
      cursor == IF advanced >= timeRange.end THEN timeRange.end ELSE advanced
  IN visualizeCalls(visualize(terrainBounds, cursor)) \o <<OnTimeChange(cursor)>>

\* How often a sequence of calls names a callback.
CallsTo(calls, name) == Cardinality({i \in 1..Len(calls) : calls[i][1] = name})

\* ------------------------------------------------------ failing dispose
\* visualize(terrainBounds, timeFilter) on the pool p when a dispose() call
\* of the cleanup loop throws for the stale entry failing, after the loop
\* evicted the stale entries before: the loop has no handler, so the
\* exception leaves visualize with failing's objects out of the group, its
\* map entry kept, the later stale entries untouched and the highlight
\* reapply and onVisualize skipped.
ReconcileDisposeThrows(p, terrainBounds, timeFilter, failing, before) ==
  LET activeIds == Range(Visible(timeFilter))
      created == Range(Created(p.map, timeFilter))
      updated ==
        [id \in DOMAIN p.map \cup activeIds |->
           IF id \in activeIds
             THEN UpdatedEntry(p.map, id, terrainBounds, timeFilter)
             ELSE p.map[id]]
  IN [ran |-> TRUE,
      threw |-> TRUE,
      hasMap |-> TRUE,
      map |-> [id \in DOMAIN updated \ before |-> updated[id]],
      group |-> (p.group \cup ObjectsOf(updated, created))
                  \ ObjectsOf(p.map, before \cup {failing}),
      calls |-> <<>>]

\* ------------------------------------------------------------ appearance
\* Reference times that put event a (time 3000) at the ages where the
\* appearance functions change: 0, 0.4 h, 1 h, 2 h, 7 h, 12 h, 12.4 h (event
\* b, 0.8 h younger, at 11.6 h), 48 h, just past 48 h, 108 h, 156 h and 200 h.
AgeTimes ==
  {3000, 3050, 3125, 3250, 3875, 4500, 4550, 9000, 9001, 16500, 22500, 28000}

\* The overlay loaded and sought to the reference times, with passes at the
\* wall clock in between.
NextAge ==
  \/ LoadData
  \/ \E features \in Responses : LoadResolve(features)
  \/ \E time \in AgeTimes, tb \in Extents : setTime(time, tb)
  \/ \E tb \in Extents : Visualize(tb, NullTime)

SpecAge == Init /\ [][NextAge]_vars

\* ------------------------------------------------- the overlay's methods
\* Every method of the overlay, called in any order, and nothing else: no
\* code outside the class writes its fields.
NextMethods ==
  \/ LoadData
  \/ \E features \in Responses : LoadResolve(features)
  \/ LoadReject
  \/ clearData
  \/ \E tb \in Extents : play(tb)
  \/ pause
  \/ \E tb \in Extents : stop(tb)
  \/ \E time \in SeekTimes, tb \in Extents : setTime(time, tb)
  \/ \E cb \in scheduled : Tick(cb)
  \/ \E speed \in Speeds : setPlaybackSpeed(speed)
  \/ \E featureId \in Selectable : setSelectedEarthquake(featureId)
  \/ \E tb \in Extents : clearSelectedEarthquake(tb)
  \/ \E delta \in FrameDeltas : AdvanceClock(delta)

SpecMethods == Init /\ [][NextMethods]_vars

\* ------------------------------------------------- clicks on the canvas
\* Where the slider is dragged to between a click and its restore timer:
\* the time of the last event, which recolours every marker shown before.
LateSeekTimes == {10500}

\* The application after its initial load: seeks, playback from the
\* timeline's play button, clicks and restore timers.  Frames follow one
\* another within a millisecond, so a tick reconciles at the cursor it finds.
NextClick ==
  \/ /\ ~hasVisualMap
     /\ LoadData
  \/ /\ ~hasVisualMap
     /\ \E features \in Responses : LoadResolve(features)
  \/ \E tb \in Extents : PlayButton(tb)
  \/ \E time \in LateSeekTimes, tb \in Extents : setTime(time, tb)
  \/ \E cb \in scheduled : Tick(cb)
  \/ \E target \in Hittable \cup {NullId} : checkEarthquakeIntersection(target)
  \/ RestoreTimer

SpecClick == Init /\ [][NextClick]_vars

\* ================================================================ claims
\* The cutoffs and extents a visualize call is checked for in every state.
PassCutoffs == Cutoffs \cup SeekTimes \cup {currentTime}
TickCutoffs == (SeekTimes \cup {currentTime}) \ {NullTime}

\* The pool a visualize result leaves behind.
PoolOf(r) == [hasMap |-> r.hasMap, map |-> r.map, group |-> r.group]

\* The loaded events a pass with this cutoff shows: all when it is unset.
VisibleIds(timeFilter) ==
  {id \in Range(earthquakeData) : timeFilter = NullTime \/ Feature(id).time <= timeFilter}

\* The age a pass with this cutoff gives feature id.
AgeAt(id, timeFilter) ==
  (IF timeFilter # NullTime THEN timeFilter ELSE DateNow) - Feature(id).time

RangeDefined == timeRange.start # NullTime /\ timeRange.end # NullTime

\* C1: in every reachable state at most one tick callback is scheduled.
C1_AtMostOneTick == Cardinality(scheduled) <= 1

\* C2: after every visualize pass, for any event store and any cutoff, the
\* identifiers in the pool are exactly those of the loaded events whose
\* timestamp is at or before the cutoff.
C2_PoolMatchesVisible ==
  \A tb \in Extents, timeFilter \in PassCutoffs :
    DOMAIN visualize(tb, timeFilter).map = VisibleIds(timeFilter)

\* C3: a second visualize with the same event set and the same cutoff creates
\* no entry, destroys no entry, keeps every entry's identity and adds no
\* object to the scene group.
C3_SecondPassStable ==
  \A tb \in Extents, timeFilter \in PassCutoffs :
    LET first == visualize(tb, timeFilter)
        second == Reconcile(PoolOf(first), selectedFeatureId, tb, timeFilter)
    IN /\ second.created = {}
       /\ second.released = {}
       /\ DOMAIN second.map = DOMAIN first.map
       /\ \A id \in DOMAIN first.map : second.map[id].uid = first.map[id].uid
       /\ second.group = first.group

\* C3 witness: the pool holds entries for exactly the events visible at the
\* cursor, all in the scene group, so a visualize at the cursor is a repeat.
C3_Witness ==
  /\ Len(earthquakeData) > 0
  /\ currentTime # NullTime
  /\ DOMAIN earthquakeVisualMap = VisibleIds(currentTime)
  /\ Cardinality(DOMAIN earthquakeVisualMap) >= 2
  /\ group = ObjectsOf(earthquakeVisualMap, DOMAIN earthquakeVisualMap)

\* C4: a pass with cutoff c1 followed by a pass with cutoff c2 < c1 removes
\* from the group, releases and drops every entry whose timestamp is in
\* (c2, c1] and keeps every entry whose timestamp is at or before c2.
C4_BackwardSeekEvicts ==
  \A tb \in Extents, c1 \in TickCutoffs, c2 \in TickCutoffs :
    c2 < c1 =>
      LET first == visualize(tb, c1)
          second == Reconcile(PoolOf(first), selectedFeatureId, tb, c2)
      IN \A id \in DOMAIN first.map :
           /\ (Feature(id).time > c2 /\ Feature(id).time <= c1) =>
                /\ id \notin DOMAIN second.map
                /\ ObjectsOf(first.map, {id}) \cap second.group = {}
                /\ first.map[id].uid \in second.released
           /\ Feature(id).time <= c2 =>
                /\ id \in DOMAIN second.map
                /\ second.map[id].uid = first.map[id].uid

\* C5: over passes with a non-decreasing cutoff and no reload (ticks and
\* forward seeks) an entry, once allocated, is kept with its identity: it is
\* neither released nor allocated again.
C5_NoChurnForward ==
  \A tb \in Extents, c1 \in TickCutoffs, c2 \in TickCutoffs :
    c1 <= c2 =>
      LET first == visualize(tb, c1)
          second == Reconcile(PoolOf(first), selectedFeatureId, tb, c2)
      IN /\ second.released = {}
         /\ second.created \cap DOMAIN first.map = {}
         /\ \A id \in DOMAIN first.map :
              /\ id \in DOMAIN second.map
              /\ second.map[id].uid = first.map[id].uid
              /\ ObjectsOf(first.map, {id}) \cap first.group
                   = ObjectsOf(second.map, {id}) \cap second.group

\* C5 witness: playback or a forward seek has moved the cursor past the start
\* with several entries in the pool, the earliest event's among them.
C5_Witness ==
  /\ Len(earthquakeData) > 0
  /\ currentTime > timeRange.start
  /\ Cardinality(DOMAIN earthquakeVisualMap) >= 2
  /\ earthquakeData[1] \in DOMAIN earthquakeVisualMap
  /\ group = ObjectsOf(earthquakeVisualMap, DOMAIN earthquakeVisualMap)

\* C6: after every visualize pass every entry other than the selected one has
\* the position, scale, colour and opacity freshly computed from its event
\* and the pass's cutoff, whether or not a selection is set.
C6_FreshAppearance ==
  \A tb \in Extents, timeFilter \in PassCutoffs :
    LET r == visualize(tb, timeFilter) IN
    \A id \in DOMAIN r.map \ {selectedFeatureId} :
      LET f == Feature(id)
          position == geoToTerrain(f.lat, f.lon, f.depth, tb)
          age == AgeAt(id, timeFilter)
      IN /\ r.map[id].position = <<position.x, position.z, position.y>>
         /\ r.map[id].scale = 3 * ScaleOf(age)
         /\ r.map[id].color = <<ageColor(age), BloomOf(age)>>
         /\ r.map[id].opacity = OpacityOf(age)

\* C7: after setSelectedEarthquake(A) then setSelectedEarthquake(B), A and B
\* both in the pool, only B is highlighted and A has the colour and opacity it
\* had immediately before it was highlighted.
C7_SelectionExclusive ==
  \A A \in Ids, B \in Ids :
    (/\ A # B
     /\ hasVisualMap
     /\ {A, B} \subseteq DOMAIN earthquakeVisualMap
     /\ selectedFeatureId # A) =>
      LET afterA == SetSelected(Pool, selectedFeatureId, A)
          afterB == SetSelected([Pool EXCEPT !.map = afterA.map], afterA.selected, B)
      IN /\ afterB.selected = B
         /\ afterB.map[B].color = White
         /\ afterB.map[B].opacity = Den
         /\ afterB.map[A].color = earthquakeVisualMap[A].color
         /\ afterB.map[A].opacity = earthquakeVisualMap[A].opacity

\* C8: while a selection is set and its event is in the pool, the selected
\* entry is white with opacity 1.0 after every visualize pass.
C8_SelectedStaysHighlighted ==
  \A tb \in Extents, timeFilter \in PassCutoffs :
    LET r == visualize(tb, timeFilter) IN
    (selectedFeatureId # NullId /\ selectedFeatureId \in DOMAIN r.map) =>
      /\ r.map[selectedFeatureId].color = White
      /\ r.map[selectedFeatureId].lineColor = White
      /\ r.map[selectedFeatureId].opacity = Den
      /\ r.map[selectedFeatureId].lineOpacity = Den

\* C8 witness: a selected entry stands in the pool next to another entry
\* after a pass at a cutoff where its computed colour is not the highlight.
C8_Witness ==
  /\ selectedFeatureId # NullId
  /\ selectedFeatureId \in DOMAIN earthquakeVisualMap
  /\ Cardinality(DOMAIN earthquakeVisualMap) >= 2
  /\ Len(earthquakeData) > 0
  /\ earthquakeVisualMap[selectedFeatureId].color = White
  /\ currentTime > Feature(selectedFeatureId).time + 48 * HourInUnits

\* C9: play() with no Time Range defined changes nothing: the controller does
\* not become Playing, no tick is scheduled, cursor and pool are unchanged.
C9_PlayWithoutRangeIsNoOp ==
  [][\A tb \in Extents : (play(tb) /\ ~RangeDefined) => UNCHANGED vars]_vars

\* C9 witness: no Time Range is defined although the pool still holds entries
\* and the wall clock has moved since the last frame reference.
C9_Witness ==
  /\ ~RangeDefined
  /\ DOMAIN earthquakeVisualMap # {}
  /\ now # lastFrameTime
  /\ ~manuallyPaused

C11_TickAdvancesOrEnds ==
  [][\A cb \in scheduled :
       (Tick(cb) /\ isPlaying) =>
         LET deltaTime == now - lastFrameTime
             advanced == currentTime + (deltaTime * playbackSpeed * dayInMs) \div 1000
             rest == scheduled \ {cb}
             r == visualize(cb.tb, advanced)
         IN IF advanced >= timeRange.end
              THEN /\ currentTime' = timeRange.end
                   /\ ~isPlaying'
                   /\ scheduled' = rest
                   /\ animationId' = NoHandle
              ELSE /\ currentTime' = advanced
                   /\ isPlaying'
                   /\ rest \subseteq scheduled'
                   /\ Cardinality(scheduled' \ rest) = 1
                   /\ animationId' \in {n.id : n \in scheduled' \ rest}
                   /\ hasVisualMap' = r.hasMap
                   /\ earthquakeVisualMap' = r.map
                   /\ group' = r.group]_vars

\* C11 witness: a tick has moved the cursor strictly inside the range after
\* the wall clock advanced, and the controller is still Playing with a frame
\* requested.
C11_Witness ==
  /\ isPlaying
  /\ RangeDefined
  /\ currentTime > timeRange.start
  /\ currentTime < timeRange.end
  /\ lastFrameTime = now
  /\ now > 0
  /\ Cardinality(scheduled) = 1
  /\ DOMAIN earthquakeVisualMap = VisibleIds(currentTime)

\* C12: with frames delivered and the wall clock advancing, and no pause,
\* stop, seek, clearData or completed load in between, a controller that is
\* Playing with a positive speed eventually has its cursor at
\* Time Range.end, is not Playing and has no tick scheduled.
C12_PlaybackTerminates ==
  (isPlaying /\ playbackSpeed > 0)
    ~> (currentTime = timeRange.end /\ ~isPlaying /\ scheduled = {})

\* C12 witness: playback ran over more than one frame and reached the end of
\* a range that is longer than one frame's advance.
C12_Witness ==
  /\ RangeDefined
  /\ timeRange.end - timeRange.start > (MaxNow * playbackSpeed * dayInMs) \div 1000
  /\ currentTime = timeRange.end
  /\ ~isPlaying
  /\ scheduled = {}
  /\ animationId = NoHandle
  /\ DOMAIN earthquakeVisualMap = Range(earthquakeData)

\* C13: pause() leaves the controller not Playing with the manual-pause flag
\* set and no tick scheduled, changes neither the cursor nor the pool, and
\* is idempotent: in the state it leaves, a second pause() changes nothing
\* (isPlaying false, flag set, animationId null).
C13_PauseQuiesces ==
  [][pause =>
       /\ ~isPlaying'
       /\ manuallyPaused'
       /\ scheduled' = {}
       /\ animationId' = NoHandle
       /\ currentTime' = currentTime
       /\ UNCHANGED poolVars]_vars

C15_SeekSetsCursor ==
  [][\A time \in SeekTimes \cup FarSeekTimes, tb \in Extents :
       setTime(time, tb) =>
         LET r == visualize(tb, time)
         IN /\ currentTime' = time
            /\ hasVisualMap' = r.hasMap
            /\ earthquakeVisualMap' = r.map
            /\ group' = r.group
            /\ UNCHANGED <<isPlaying, manuallyPaused, scheduled, animationId,
                           lastFrameTime, playbackSpeed>>]_vars

\* C15 witness: a seek past the end of the range during playback left the
\* cursor there, every loaded event in the pool and the tick still scheduled.
C15_Witness ==
  /\ RangeDefined
  /\ currentTime > timeRange.end
  /\ isPlaying
  /\ animationId \in {cb.id : cb \in scheduled}
  /\ DOMAIN earthquakeVisualMap = Range(earthquakeData)
  /\ Len(earthquakeData) > 0

\* C16 as stated: once a Time Range exists the cursor lies within
\* [Time Range.start, Time Range.end] in every reachable state.
C16_CursorInRange ==
  RangeDefined => (timeRange.start <= currentTime /\ currentTime <= timeRange.end)

\* A seek whose time the caller did not keep inside the Time Range.
C16_SeekOutOfRange ==
  \E time \in SeekTimes \cup FarSeekTimes, tb \in Extents :
    /\ setTime(time, tb)
    /\ RangeDefined
    /\ (time < timeRange.start \/ time > timeRange.end)

\* C16 amended: the cursor is within the Time Range initially, and every
\* load, play, tick, pause, stop, setPlaybackSpeed and seek to a time inside
\* the Time Range keeps it there; only a seek to a time outside the range
\* takes it out.
C16_CursorInRangeUnlessFarSeek ==
  [][(C16_CursorInRange /\ ~C16_SeekOutOfRange) => C16_CursorInRange']_vars

\* C16 witness: a tick at speed 2 would have passed the end of the range and
\* left the cursor exactly on it.
C16_Witness ==
  /\ RangeDefined
  /\ timeRange.start < timeRange.end
  /\ currentTime = timeRange.end
  /\ playbackSpeed = 2
  /\ ~isPlaying
  /\ ~manuallyPaused
  /\ lastFrameTime = now
  /\ now > 0
  /\ animationId = NoHandle

\* The event list is in ascending order of timestamp.
SortedByTime(events) ==
  \A i \in 1..Len(events), j \in 1..Len(events) :
    i < j => Feature(events[i]).time <= Feature(events[j]).time

\* C17: a load that resolves with at least one event leaves the event list
\* holding the returned events in ascending order of timestamp,
\* Time Range.start at the earliest and Time Range.end at the latest
\* timestamp, the cursor at Time Range.start, and isPlaying, the manual-pause
\* flag and the scheduled ticks as they were.
C17_LoadSortsAndResets ==
  [][\A features \in Responses :
       (LoadResolve(features) /\ Len(features) > 0) =>
         /\ Len(earthquakeData') = Len(features)
         /\ Range(earthquakeData') = Range(features)
         /\ SortedByTime(earthquakeData')
         /\ \A id \in Range(features) :
              /\ timeRange'.start <= Feature(id).time
              /\ Feature(id).time <= timeRange'.end
         /\ \E id \in Range(features) : timeRange'.start = Feature(id).time
         /\ \E id \in Range(features) : timeRange'.end = Feature(id).time
         /\ currentTime' = timeRange'.start
         /\ UNCHANGED <<isPlaying, manuallyPaused, scheduled, animationId>>]_vars

\* C17 witness: a load resolved during playback: the controller is Playing,
\* the cursor is back at the start of the range, and the pool still holds an
\* event later than the cursor from the ticks before the load.
C17_Witness ==
  /\ Len(earthquakeData) > 1
  /\ SortedByTime(earthquakeData)
  /\ isPlaying
  /\ currentTime = timeRange.start
  /\ \E id \in DOMAIN earthquakeVisualMap : Feature(id).time > currentTime

\* C18: whenever the event list is empty (initially, after clearData, after
\* a load that resolved with zero events) the Time Range is undefined.
C18_NoEventsNoRange ==
  Len(earthquakeData) = 0 =>
    (timeRange.start = NullTime /\ timeRange.end = NullTime)

\* C19: a load that fails, by a rejected fetch or by a malformed feature in
\* the response, leaves the event list, the Time Range and the cursor as
\* they were.
C19_FailedLoadChangesNothing ==
  [][(LoadReject \/ \E features \in MalformedResponses : LoadMalformed(features))
       => UNCHANGED <<earthquakeData, timeRange, currentTime>>]_vars

\* C20: at most one load is in flight on the overlay at any time.
C20_OneLoadInFlight == pending <= 1

\* C21: every load that resolves, with events or with none, calls
\* onTimeRangeChange exactly once, and a load that fails never calls it.
C21_RangeCallbackPerLoad ==
  [][/\ \A features \in Responses :
          LoadResolve(features) =>
            CallsTo(loadDataCalls(features), "onTimeRangeChange") = 1
     /\ LoadReject => CallsTo(loadDataFailedCalls, "onTimeRangeChange") = 0]_vars

\* C22: no operation changes currentTime without calling onTimeChange with
\* the new value: ticks, seeks, stop, loads and clearData alike.
C22_CursorChangeNotified ==
  [][currentTime' # currentTime =>
       /\ \A features \in Responses :
            LoadResolve(features) =>
              OnTimeChange(currentTime') \in Range(loadDataCalls(features))
       /\ clearData => OnTimeChange(currentTime') \in Range(clearDataCalls)
       /\ \A time \in SeekTimes, tb \in Extents :
            setTime(time, tb) =>
              OnTimeChange(currentTime') \in Range(setTimeCalls(time, tb))
       /\ \A tb \in Extents :
            stop(tb) => OnTimeChange(currentTime') \in Range(stopCalls(tb))
       /\ \A cb \in scheduled :
            Tick(cb) =>
              OnTimeChange(currentTime') \in Range(animateCalls(cb.tb, lastFrameTime))]_vars

\* C23: every visualize pass, a pass over an empty event store included,
\* calls onVisualize exactly once, as its last step.
C23_VisualizeNotifiesOnce ==
  \A tb \in Extents, timeFilter \in PassCutoffs :
    LET calls == visualizeCalls(visualize(tb, timeFilter))
    IN /\ CallsTo(calls, "onVisualize") = 1
       /\ calls[Len(calls)] = OnVisualize

\* C24: when dispose throws for a stale entry during a pass, that entry
\* still leaves the map, every other stale entry of the pass is still
\* evicted, and the exception does not leave the pass.
C24_DisposeFailureContained ==
  Len(earthquakeData) > 0 =>
    \A tb \in Extents, timeFilter \in PassCutoffs :
      LET stale == Stale(earthquakeVisualMap, Range(Visible(timeFilter)))
      IN \A failing \in stale : \A before \in SUBSET (stale \ {failing}) :
           LET r == ReconcileDisposeThrows(Pool, tb, timeFilter, failing, before)
           IN /\ failing \notin DOMAIN r.map
              /\ stale \cap DOMAIN r.map = {}
              /\ ~r.threw

\* C25: a pass given the all-zero terrain extent creates no entry and
\* changes the position of none: it maps no coordinate.
C25_NoMappingWithZeroExtent ==
  \A timeFilter \in PassCutoffs :
    LET r == visualize(ZeroBounds, timeFilter)
    IN /\ r.created = {}
       /\ \A id \in DOMAIN r.map \cap DOMAIN earthquakeVisualMap :
            r.map[id].position = earthquakeVisualMap[id].position

\* Ages, in time units, on both sides of every point where an appearance
\* function changes (0, 1 h, 2 h, 12 h, 48 h, the opacity floor at 156 h).
AgeGrid ==
  {-250, -1, 0, 1, 50, 124, 125, 126, 249, 250, 251, 875, 1499, 1500, 1501,
   3750, 5999, 6000, 6001, 13500, 19499, 19500, 19501, 25000}
AgeCutoffs == AgeTimes \cup PassCutoffs

\* The growth-in scale of the claim, over Den, for an age in time units.
GrowthScale(age) ==
  IF age < 0 THEN 0
  ELSE IF age < HourInUnits THEN (age * Den) \div HourInUnits
  ELSE Den

\* C26: the scale is 0 for a negative age, the age in hours below one hour
\* and 1.0 from one hour on, so 0 at age 0 and non-decreasing; and every
\* pass sets each visible marker's uniform scale to 3.0 times that value.
C26_GrowthScale ==
  /\ \A age \in AgeGrid : ScaleOf(age) = GrowthScale(age)
  /\ ScaleOf(0) = 0
  /\ \A a1 \in AgeGrid, a2 \in AgeGrid : a1 <= a2 => ScaleOf(a1) <= ScaleOf(a2)
  /\ \A tb \in Extents, timeFilter \in AgeCutoffs :
       LET r == visualize(tb, timeFilter)
       IN r.ran =>
            \A id \in VisibleIds(timeFilter) :
              r.map[id].scale = 3 * GrowthScale(AgeAt(id, timeFilter))

\* A marker partway through its growth-in is in the pool.
C26_Witness ==
  \E id \in DOMAIN earthquakeVisualMap :
    /\ earthquakeVisualMap[id].scale > 0
    /\ earthquakeVisualMap[id].scale < 3 * Den

\* The fade opacity of the claim, over Den, for an age in time units.
FadeOpacity(age) ==
  IF age < 0 THEN 0
  ELSE IF age <= 48 * HourInUnits THEN Den
  ELSE Max(Den \div 10, Den - ((age - 48 * HourInUnits) * Den) \div (120 * HourInUnits))

\* C27: the derived opacity is 0 for a negative age, 1.0 up to 48 h and
\* max(0.1, 1 - (ageHours - 48) / 120) after; for a non-negative age it
\* lies in [0.1, 1.0], never 0, and does not grow with age.  Every pass derives
\* this value for each visible event.
C27_FadeOpacity ==
  /\ \A age \in AgeGrid :
       /\ OpacityOf(age) = FadeOpacity(age)
       /\ age >= 0 => OpacityOf(age) >= Den \div 10 /\ OpacityOf(age) <= Den
  /\ \A a1 \in AgeGrid, a2 \in AgeGrid :
       (0 <= a1 /\ a1 <= a2) => OpacityOf(a1) >= OpacityOf(a2)
  /\ \A tb \in Extents, timeFilter \in AgeCutoffs :
       \A id \in VisibleIds(timeFilter) :
         UpdatedEntry(earthquakeVisualMap, id, tb, timeFilter).opacity
           = FadeOpacity(AgeAt(id, timeFilter))

\* The pool holds a marker faded to the floor and one partway through the fade.
C27_Witness ==
  /\ \E id \in DOMAIN earthquakeVisualMap :
       earthquakeVisualMap[id].opacity = Den \div 10
  /\ \E id \in DOMAIN earthquakeVisualMap :
       /\ earthquakeVisualMap[id].opacity > Den \div 10
       /\ earthquakeVisualMap[id].opacity < Den

\* The point at age on the straight line from (from, high) to (to, low).
Ramp(age, from, to, high, low) ==
  high - ((age - from) * (high - low)) \div (to - from)

\* The glow multiplier of the claim, over Den, for a non-negative age.
Glow(age) ==
  IF age <= 2 * HourInUnits THEN 12 * Den
  ELSE IF age <= 12 * HourInUnits
    THEN Ramp(age, 2 * HourInUnits, 12 * HourInUnits, 12 * Den, 6 * Den)
  ELSE IF age <= 48 * HourInUnits
    THEN Ramp(age, 12 * HourInUnits, 48 * HourInUnits, 6 * Den, 2 * Den)
  ELSE (12 * Den) \div 10

\* C28: the glow multiplier is 12.0 up to 2 h, falls linearly to 6.0 at
\* 12 h and to 2.0 at 48 h, and is 1.2 after; it does not grow with age for
\* ages >= 0.  Every pass derives this value for each visible event.
C28_GlowMultiplier ==
  /\ \A age \in AgeGrid : age >= 0 => BloomOf(age) = Glow(age)
  /\ BloomOf(2 * HourInUnits) = 12 * Den
  /\ BloomOf(12 * HourInUnits) = 6 * Den
  /\ BloomOf(48 * HourInUnits) = 2 * Den
  /\ \A a1 \in AgeGrid, a2 \in AgeGrid :
       (0 <= a1 /\ a1 <= a2) => BloomOf(a1) >= BloomOf(a2)
  /\ \A tb \in Extents, timeFilter \in AgeCutoffs :
       \A id \in VisibleIds(timeFilter) :
         UpdatedEntry(earthquakeVisualMap, id, tb, timeFilter).color[2]
           = Glow(AgeAt(id, timeFilter))

\* The pool holds a marker on the first ramp and one on the second.
C28_Witness ==
  /\ \E id \in DOMAIN earthquakeVisualMap :
       /\ earthquakeVisualMap[id].color[2] > 6 * Den
       /\ earthquakeVisualMap[id].color[2] < 12 * Den
  /\ \E id \in DOMAIN earthquakeVisualMap :
       /\ earthquakeVisualMap[id].color[2] > 2 * Den
       /\ earthquakeVisualMap[id].color[2] < 6 * Den

\* Latitudes, longitudes and depths on the extent's edges, at its centre,
\* inside and outside it.
GridLats == {50, 55, 60, 63, 65}
GridLons == {-165, -160, -155, -152, -150}
GridDepths == {0, 10, 35}

\* C30: over a populated extent the mapper returns
\* x = -(((lon - minLon) / (maxLon - minLon)) * width - width / 2),
\* y = ((lat - minLat) / (maxLat - minLat)) * height - height / 2 and
\* zHeight = -(depthKm * 1000) / 25: the centre maps to (0, 0), minLon to
\* +width / 2, maxLon to -width / 2, a greater depth to a strictly lower
\* zHeight; and each entry a pass touches sits at the mapped position.
C30_MapperFormula ==
  /\ \A e \in Extents, lat \in GridLats, lon \in GridLons, depth \in GridDepths :
       LET p == geoToTerrain(lat, lon, depth, e)
       IN /\ p.x = Num(-(((lon - e.minLon) * e.width) \div (e.maxLon - e.minLon)
                         - e.width \div 2))
          /\ p.y = Num(((lat - e.minLat) * e.height) \div (e.maxLat - e.minLat)
                       - e.height \div 2)
          /\ p.z = Num(-((depth * 1000) \div 25))
          /\ geoToTerrain(lat, e.minLon, depth, e).x = Num(e.width \div 2)
          /\ geoToTerrain(lat, e.maxLon, depth, e).x = Num(-(e.width \div 2))
          /\ \A deeper \in GridDepths :
               deeper > depth => geoToTerrain(lat, lon, deeper, e).z[2] < p.z[2]
  /\ \A e \in Extents, depth \in GridDepths :
       LET centre == geoToTerrain((e.minLat + e.maxLat) \div 2,
                                  (e.minLon + e.maxLon) \div 2, depth, e)
       IN centre.x = Num(0) /\ centre.y = Num(0)
  /\ \A tb \in Extents, timeFilter \in AgeCutoffs :
       \A id \in VisibleIds(timeFilter) :
         LET f == Feature(id)
             entry == UpdatedEntry(earthquakeVisualMap, id, tb, timeFilter)
         IN entry.position =
              <<Num(-(((f.lon - tb.minLon) * tb.width) \div (tb.maxLon - tb.minLon)
                      - tb.width \div 2)),
                Num(-((f.depth * 1000) \div 25)),
                Num(((f.lat - tb.minLat) * tb.height) \div (tb.maxLat - tb.minLat)
                    - tb.height \div 2)>>

\* The pool holds the marker of the event at the extent's centre, 10 km deep,
\* and one of an event off the centre.
C30_Witness ==
  /\ \E id \in DOMAIN earthquakeVisualMap :
       earthquakeVisualMap[id].position = <<Num(0), Num(-400), Num(0)>>
  /\ \E id \in DOMAIN earthquakeVisualMap :
       /\ earthquakeVisualMap[id].position[1] # Num(0)
       /\ earthquakeVisualMap[id].position[3] # Num(0)

\* The base colour of the claim for an age in time units.
BaseColor(age) ==
  IF age <= 2 * HourInUnits THEN Rgb(255, 0, 0)
  ELSE IF age <= 48 * HourInUnits
    THEN Rgb(255, (165 * (age - 2 * HourInUnits)) \div (46 * HourInUnits), 0)
  ELSE Rgb(255, 255, 0)

\* C29: the base colour is red below 0 and up to 2 h,
\* (255, floor(165 * (ageHours - 2) / 46), 0) up to 48 h and yellow after;
\* and after every pass each visible marker other than the selected one is
\* rendered in that colour times the glow multiplier.
C29_RenderedColor ==
  /\ \A age \in AgeGrid : ageColor(age) = BaseColor(age)
  /\ \A tb \in Extents, timeFilter \in PassCutoffs :
       LET r == visualize(tb, timeFilter)
       IN r.ran =>
            \A id \in VisibleIds(timeFilter) \ {selectedFeatureId} :
              r.map[id].color = <<BaseColor(AgeAt(id, timeFilter)),
                                  Glow(AgeAt(id, timeFilter))>>

\* C31: setPlaybackSpeed(speed) stores the rate and changes nothing else:
\* not the cursor, the playing and manual-pause flags, the frame clock, the
\* scheduled ticks or the pool; no other operation changes the rate; and a
\* tick advances the cursor by the rate stored when it runs.
C31_SpeedOnlyChangesRate ==
  [][/\ \A speed \in Speeds :
          setPlaybackSpeed(speed) =>
            /\ playbackSpeed' = speed
            /\ UNCHANGED <<currentTime, isPlaying, manuallyPaused, lastFrameTime,
                           animationId, scheduled, poolVars, dataVars,
                           selectedFeatureId>>
     /\ playbackSpeed' # playbackSpeed =>
          \E speed \in Speeds : setPlaybackSpeed(speed)
     /\ \A cb \in scheduled :
          (Tick(cb) /\ isPlaying) =>
            currentTime' =
              Min(timeRange.end,
                  currentTime
                    + ((now - lastFrameTime) * playbackSpeed * dayInMs) \div 1000)]_vars

\* A tick has carried the cursor off its start and the rate was then doubled
\* while Playing, with the next tick scheduled.
C31_Witness ==
  /\ playbackSpeed = 2
  /\ isPlaying
  /\ scheduled # {}
  /\ lastFrameTime > 0
  /\ currentTime > timeRange.start

\* C32: a pass examines no more events than there are loaded events with a
\* timestamp at or before its cutoff.
C32_WorkBoundedByVisible ==
  \A timeFilter \in PassCutoffs :
    Len(Examined(timeFilter)) <= Cardinality(VisibleIds(timeFilter))

\* C33: pause() leaves the manual-pause flag set and the controller not
\* Playing, and from then on no method of the overlay clears the flag or
\* makes the controller Playing.
C33_PauseIsFinal ==
  [][/\ pause => (manuallyPaused' /\ ~isPlaying')
     /\ manuallyPaused => (manuallyPaused' /\ ~isPlaying')]_vars

\* Paused by hand in mid-range with events loaded, a selection set and the
\* rate changed: play, stop, seek, selection and load are all enabled.
C33_Witness ==
  /\ manuallyPaused
  /\ RangeDefined
  /\ currentTime > timeRange.start
  /\ currentTime < timeRange.end
  /\ selectedFeatureId # NullId
  /\ playbackSpeed = 2
  /\ pending = 1

\* C34: after every completed visualize pass the scene group holds exactly
\* the marker and the depth segment of each pool entry, also when the pass
\* follows clearData and a reload of events with the same identifiers.
C34_GroupMatchesPool ==
  \A tb \in Extents, timeFilter \in PassCutoffs :
    LET r == visualize(tb, timeFilter)
    IN r.ran => r.group = ObjectsOf(r.map, DOMAIN r.map)

\* C35: whenever the controller is Playing or a tick is scheduled, the Time
\* Range is defined and the cursor is a timestamp.
C35_PlayingHasRange ==
  (isPlaying \/ scheduled # {}) => (RangeDefined /\ currentTime # NullTime)

\* C36: with two loads in flight, whichever response arrives first, the
\* event list held after both have resolved is the one the later-requested
\* load returned, and so are the Time Range and cursor when it returned events.
C36_LastRequestWins ==
  pending >= 2 =>
    \A older \in Responses, newer \in Responses :
      \A arrival \in {<<older, newer>>, <<newer, older>>} :
        LET final == loadDataResolved(loadDataResolved(Store, arrival[1]), arrival[2])
        IN /\ final.earthquakeData = SortByTime(newer)
           /\ Len(newer) > 0 =>
                /\ final.timeRange.start = Feature(SortByTime(newer)[1]).time
                /\ final.timeRange.end = Feature(SortByTime(newer)[Len(newer)]).time
                /\ final.currentTime = final.timeRange.start

\* C37: after a pass driven by the cursor with a non-zero cutoff every pool
\* entry belongs to an event at or before the cutoff, its scale is within
\* [0, 3.0] and, unless it is the highlighted one, its opacity within [0.1, 1.0].
C37_CursorPassAgesNonNegative ==
  \A tb \in Extents, timeFilter \in TickCutoffs :
    LET r == visualize(tb, timeFilter)
    IN \A id \in DOMAIN r.map :
         /\ Feature(id).time <= timeFilter
         /\ AgeAt(id, timeFilter) >= 0
         /\ r.map[id].scale >= 0 /\ r.map[id].scale <= 3 * Den
         /\ id # selectedFeatureId =>
              r.map[id].opacity >= Den \div 10 /\ r.map[id].opacity <= Den

\* A second populated extent: a pass given it moves every entry it reuses.
MovedBounds ==
  [minLat |-> 50, maxLat |-> 70, minLon |-> -170, maxLon |-> -150,
   width |-> 2000, height |-> 1000]

\* C38: after every visualize pass each pool entry's depth segment runs from
\* the point at height 0 directly above the marker to the marker's position,
\* and every entry the pass showed sits at (mapped x, zHeight, mapped y).
C38_SegmentFollowsMarker ==
  \A tb \in Extents \cup {MovedBounds}, timeFilter \in PassCutoffs :
    LET r == visualize(tb, timeFilter)
    IN /\ \A id \in DOMAIN r.map :
            LET entry == r.map[id]
            IN /\ SubSeq(entry.linePoints, 1, 3)
                    = <<entry.position[1], Num(0), entry.position[3]>>
               /\ SubSeq(entry.linePoints, 4, 6) = entry.position
       /\ r.ran =>
            \A id \in VisibleIds(timeFilter) :
              LET f == Feature(id)
                  mapped == geoToTerrain(f.lat, f.lon, f.depth, tb)
              IN r.map[id].position = <<mapped.x, mapped.z, mapped.y>>

\* The pool holds the markers of all three events, two of them below the
\* surface, with one highlighted, after the cursor reached the end of the range.
C38_Witness ==
  /\ DOMAIN earthquakeVisualMap = Ids
  /\ \E id \in Ids : earthquakeVisualMap[id].position[2] = Num(-1400)
  /\ \E id \in Ids : earthquakeVisualMap[id].linePoints[5] = Num(-400)
  /\ selectedFeatureId \in Ids
  /\ RangeDefined
  /\ currentTime = timeRange.end

\* C39: a canvas click while Playing pauses and does nothing else: the info
\* box, the restore timers and every marker are as before; the info box
\* changes, a marker is highlighted or a restore timer starts only on a
\* click made while not Playing.
C39_ClickWhilePlayingOnlyPauses ==
  [][\A target \in Hittable \cup {NullId} :
       checkEarthquakeIntersection(target) =>
         /\ isPlaying =>
              /\ ~isPlaying' /\ manuallyPaused'
              /\ UNCHANGED <<infoPopup, restoreTimers, earthquakeVisualMap, group,
                             selectedFeatureId, currentTime, dataVars>>
         /\ (\/ infoPopup' # infoPopup
             \/ Len(restoreTimers') > Len(restoreTimers)
             \/ earthquakeVisualMap' # earthquakeVisualMap) => ~isPlaying]_vars

\* Paused by a click, with markers under the cursor to hit, no info box
\* shown, no marker white and no restore timer running.
C39_Witness ==
  /\ manuallyPaused
  /\ ~isPlaying
  /\ Hittable # {}
  /\ infoPopup = NullId
  /\ restoreTimers = <<>>
  /\ \A id \in DOMAIN earthquakeVisualMap : earthquakeVisualMap[id].color # White
  /\ currentTime < timeRange.end

\* The colour the pass at the cursor gives the marker of event id.
CursorColor(id) ==
  <<ageColor(currentTime - Feature(id).time), BloomOf(currentTime - Feature(id).time)>>

\* C40: once every restore timer has fired, every marker has the colour the
\* last visualize pass gave it: none is white and none has an earlier colour.
C40_HighlightUndone ==
  restoreTimers = <<>> =>
    \A id \in DOMAIN earthquakeVisualMap :
      /\ earthquakeVisualMap[id].color # White
      /\ earthquakeVisualMap[id].color = CursorColor(id)

====
